---------------------------- MODULE Spec2Model ----------------------------
(***************************************************************************)
(* Model of src/app.py, the Streamlit "PyCaret Data Explorer" script.      *)
(*                                                                         *)
(* The script is re-executed top to bottom after every widget interaction. *)
(* The state is the widgets' values (selectbox, file uploader, which       *)
(* widget triggered the run), the script's module-level variables (df,     *)
(* profile, html_str), what the run has put on the page (messages,         *)
(* preview, report, download buttons) and the position of the run (pc).    *)
(* The external collaborators (pycaret.get_data, pandas readers,           *)
(* ydata-profiling, pdfkit) are modelled by their outcomes: a value or a   *)
(* raised exception, chosen nondeterministically where the source cannot   *)
(* decide it.                                                              *)
(***************************************************************************)
EXTENDS Integers, Sequences, FiniteSets, TLC

VARIABLES
    selected_builtin,   \* value of the selectbox (line 85)
    uploaded_file,      \* value of the file uploader (line 89), NoFile = None
    rejected,           \* extension of a file the uploader refused, "" if none
    trigger,            \* the interaction that started the current run
    pc,                 \* position of the current run; "idle" = run finished
    df,                 \* module-level df (line 99)
    messages,           \* st.success / st.error / st.warning / st.info shown
    preview,            \* the table given to st.dataframe (line 121)
    profile,            \* the dataset handed to ProfileReport (line 127)
    report_rendered,    \* st_profile_report returned (line 133)
    html_str,           \* profile.to_html() returned (line 136)
    downloads,          \* download buttons on the page (lines 141, 150)
    calls,              \* collaborator functions called by the current run
    failures,           \* collaborator calls that raised in the current run
    crashed,            \* an exception escaped the script
    prev                \* df and downloads of the page the run replaces

vars == <<selected_builtin, uploaded_file, rejected, trigger, pc, df, messages,
          preview, profile, report_rendered, html_str, downloads, calls,
          failures, crashed, prev>>

---------------------------------------------------------------------------
(* Bounds and program constants *)

\* largest row count of a dataset in the model (above HeadRows)
MaxRows == 11

\* df.head(10), line 121
HeadRows == 10

RowChoices == {0, 1, HeadRows, MaxRows}

\* line 85: the placeholder entry of the selectbox
NoneLabel == "-- none --"

\* lines 81-84
builtin_ds == <<"juice", "titanic", "diabetes", "winequality-red",
                "iris", "boston_housing", "adult">>

\* line 85: the options of the selectbox
SelectOptions == <<NoneLabel>> \o builtin_ds

Range(s) == {s[i] : i \in DOMAIN s}

\* line 91: type=["csv", "xlsx"]
AcceptedTypes == {"csv", "xlsx"}

\* extensions of the files a user may try to upload
Extensions == {"csv", "xlsx", "xls", "txt"}

---------------------------------------------------------------------------
(* Values *)

\* df = None (line 99)
NoneDf == [src |-> "None", name |-> "", rows |-> 0]

\* pd.DataFrame() (line 39)
EmptyDataFrame == [src |-> "DataFrame()", name |-> "", rows |-> 0]

\* uploaded_file is None (line 109)
NoFile == [ext |-> "", format |-> "none", rows |-> 0]

\* A file on the user's disk: its extension, what its bytes really are, and
\* the number of data rows a matching parser finds in it.
Files ==
    {[ext |-> e, format |-> f, rows |-> r] :
        e \in Extensions, f \in {"delimited", "spreadsheet"}, r \in RowChoices}
    \cup {[ext |-> e, format |-> "junk", rows |-> 0] : e \in Extensions}

Msg(level, text) == [level |-> level, text |-> text]

\* line 38
ReadError == Msg("error", "Could not read the file")

\* line 49
PdfWarning == Msg("warning", "PDF conversion failed")

\* line 105
BuiltinLoaded == Msg("success", "Loaded dataset")

\* line 107
BuiltinError == Msg("error", "Error loading built-in dataset")

\* line 113
UploadLoaded == Msg("success", "Uploaded data loaded")

\* line 157
ProfilingError == Msg("error", "Profiling failed")

\* line 160
StartInfo ==
    Msg("info", "Select a built-in dataset or upload a CSV/Excel file to start")

\* df.empty
IsEmpty(d) == d.rows = 0

Min(a, b) == IF a <= b THEN a ELSE b

\* df.head(n)
df_head(d, n) == [d EXCEPT !.rows = Min(n, d.rows)]

\* Python's `a or b` on strings: a when it is non-empty, else b
PyOr(a, b) == IF a # "" THEN a ELSE b

---------------------------------------------------------------------------
(* Collaborators *)

\* pd.read_csv(file): parses delimited text, raises on anything else
pd_read_csv(file) ==
    IF file.format = "delimited"
    THEN [raised |-> FALSE,
          df |-> [src |-> "read_csv", name |-> file.ext, rows |-> file.rows]]
    ELSE [raised |-> TRUE, df |-> NoneDf]

\* pd.read_excel(file): parses a spreadsheet, raises on anything else
pd_read_excel(file) ==
    IF file.format = "spreadsheet"
    THEN [raised |-> FALSE,
          df |-> [src |-> "read_excel", name |-> file.ext, rows |-> file.rows]]
    ELSE [raised |-> TRUE, df |-> NoneDf]

\* outcomes of get_data(name, profile=False): a non-empty table or an exception
GetDataOutcomes ==
    {[raised |-> FALSE, rows |-> r] : r \in RowChoices \ {0}}
    \cup {[raised |-> TRUE, rows |-> 0]}

\* outcomes of pdfkit.from_string(html_str, False)
PdfOutcomes == {"bytes", "empty", "raise"}

\* which call of lines 127-136 raises, if any
ProfilingOutcomes == {"ok", "ProfileReport", "st_profile_report", "to_html"}

---------------------------------------------------------------------------
(* Functions of the script *)

\* read_uploaded_file without its try/except: a parser's exception escapes
read_uploaded_file_unguarded(file) ==
    LET r == IF file.ext = "csv" THEN pd_read_csv(file) ELSE pd_read_excel(file)
    IN  [df |-> r.df, raised |-> r.raised, msgs |-> {}]

\* lines 29-39: read_uploaded_file(file)
read_uploaded_file(file) ==
    LET r == IF file.ext = "csv" THEN pd_read_csv(file) ELSE pd_read_excel(file)
    IN  IF r.raised
        THEN [df |-> EmptyDataFrame, raised |-> FALSE,
              msgs |-> {ReadError}]
        ELSE [df |-> r.df, raised |-> FALSE, msgs |-> {}]

\* convert_html_to_pdf without its try/except: pdfkit's exception escapes to
\* the enclosing try of the generate block
convert_html_to_pdf_unguarded(outcome) ==
    IF outcome = "raise"
    THEN [ret |-> "None", raised |-> TRUE, msgs |-> {}]
    ELSE [ret |-> outcome, raised |-> FALSE, msgs |-> {}]

\* lines 42-50: convert_html_to_pdf(html_str)
convert_html_to_pdf(outcome) ==
    IF outcome = "raise"
    THEN [ret |-> "None", raised |-> FALSE,
          msgs |-> {PdfWarning}]
    ELSE [ret |-> outcome, raised |-> FALSE, msgs |-> {}]

\* line 149: `if pdf_bytes:` (None and b"" are falsy)
Truthy(ret) == ret = "bytes"

\* lines 103-107: the try/except around get_data
load_builtin(name, outcome) ==
    IF outcome.raised
    THEN [df |-> NoneDf, raised |-> FALSE,
          msgs |-> {BuiltinError}]
    ELSE [df |-> [src |-> "get_data", name |-> name, rows |-> outcome.rows],
          raised |-> FALSE,
          msgs |-> {BuiltinLoaded}]

\* the built-in branch written as the alternative of the upload branch
BuiltinGuard_unless_upload(selected, file) ==
    selected # NoneLabel /\ file = NoFile

\* line 101: the built-in branch is taken
BuiltinGuard(selected, file) == selected # NoneLabel

\* line 109: the upload branch is taken
UploadGuard(file) == file # NoFile

\* the upload branch keeping a built-in dataset that is already loaded
AssignUpload_builtin_first(current, loaded) ==
    IF current # NoneDf THEN current ELSE loaded

\* the upload branch keeping the current dataset when the file gave nothing
AssignUpload_keep_on_failure(current, loaded) ==
    IF IsEmpty(loaded) THEN current ELSE loaded

\* line 111: df after the upload branch
AssignUpload(current, loaded) == loaded

\* the preview branch without the emptiness test
PreviewGuard_not_none(d) == d # NoneDf

\* line 119: df is not None and not df.empty
PreviewGuard(d) == d # NoneDf /\ ~IsEmpty(d)

\* a button whose value survives the rerun a download click causes
st_button_sticky(trig) == trig \in {"generate", "download"}

\* line 124: st.button(...) is True only in the run its click triggered
st_button(trig) == trig = "generate"

\* profiling the previewed rows instead of the dataset
ProfileInput_head(d) == [d EXCEPT !.rows = Min(HeadRows, d.rows)]

\* line 128: the dataset handed to ProfileReport
ProfileInput(d) == d

\* lines 144, 153: file_name=f"{selected_builtin or 'uploaded_data'}_profiling<ext>"
FileName(selected, ext) == PyOr(selected, "uploaded_data") \o "_profiling" \o ext

\* line 91: the uploader takes a file iff its extension is in `type`
Accepts(file) == file.ext \in AcceptedTypes

HtmlButton(selected) ==
    [label |-> "Download HTML", file_name |-> FileName(selected, ".html"),
     mime |-> "text/html"]

PdfButton(selected) ==
    [label |-> "Download PDF", file_name |-> FileName(selected, ".pdf"),
     mime |-> "application/pdf"]

\* the Generate button is on the page iff the preview branch ran (line 124)
ButtonShown == preview # NoneDf

---------------------------------------------------------------------------
(* Initial state: the page is opened, the first run of the script starts *)

Init ==
    /\ selected_builtin = SelectOptions[1]
    /\ uploaded_file = NoFile
    /\ rejected = ""
    /\ trigger = "open"
    /\ pc = "load_builtin"
    /\ df = NoneDf
    /\ messages = {}
    /\ preview = NoneDf
    /\ profile = NoneDf
    /\ report_rendered = FALSE
    /\ html_str = FALSE
    /\ downloads = {}
    /\ calls = {}
    /\ failures = {}
    /\ crashed = FALSE
    /\ prev = [df |-> NoneDf, downloads |-> {}]

\* A widget interaction starts a new run: the page of the previous run is
\* replaced and the script starts again from `df = None` (line 99).
Rerun(trig) ==
    /\ trigger' = trig
    /\ pc' = "load_builtin"
    /\ prev' = [df |-> df, downloads |-> downloads]
    /\ df' = NoneDf
    /\ messages' = {}
    /\ preview' = NoneDf
    /\ profile' = NoneDf
    /\ report_rendered' = FALSE
    /\ html_str' = FALSE
    /\ downloads' = {}
    /\ calls' = {}
    /\ failures' = {}
    /\ UNCHANGED crashed

\* An exception that no except clause catches ends the run.
Uncaught ==
    /\ crashed' = TRUE
    /\ pc' = "idle"

UserCanAct == pc = "idle" /\ ~crashed

---------------------------------------------------------------------------
(* Widget interactions *)

\* line 85: the user picks another entry of the selectbox
SelectBuiltin(name) ==
    /\ UserCanAct
    /\ name \in Range(SelectOptions)
    /\ name # selected_builtin
    /\ selected_builtin' = name
    /\ Rerun("select")
    /\ UNCHANGED <<uploaded_file, rejected>>

\* lines 89-93: the user drops a file the uploader accepts
UploadFile(file) ==
    /\ UserCanAct
    /\ Accepts(file)
    /\ uploaded_file' = file
    /\ rejected' = ""
    /\ Rerun("upload")
    /\ UNCHANGED selected_builtin

\* lines 89-93: the user drops a file whose extension is not in `type`; the
\* widget refuses it, its value is unchanged and the script does not rerun
RejectFile(file) ==
    /\ UserCanAct
    /\ ~Accepts(file)
    /\ rejected' = file.ext
    /\ UNCHANGED <<selected_builtin, uploaded_file, trigger, pc, df, messages,
                   preview, profile, report_rendered, html_str, downloads,
                   calls, failures, crashed, prev>>

\* lines 89-93: the user removes the uploaded file
RemoveUpload ==
    /\ UserCanAct
    /\ uploaded_file # NoFile
    /\ uploaded_file' = NoFile
    /\ rejected' = ""
    /\ Rerun("remove")
    /\ UNCHANGED selected_builtin

\* line 124: the user presses "Generate Profiling Report"
PressGenerate ==
    /\ UserCanAct
    /\ ButtonShown
    /\ Rerun("generate")
    /\ UNCHANGED <<selected_builtin, uploaded_file, rejected>>

\* lines 141, 150: the user clicks a download button, which reruns the script
ClickDownload ==
    /\ UserCanAct
    /\ downloads # {}
    /\ Rerun("download")
    /\ UNCHANGED <<selected_builtin, uploaded_file, rejected>>

---------------------------------------------------------------------------
(* The run of the script *)

\* lines 101-107
LoadBuiltin ==
    /\ pc = "load_builtin"
    /\ IF BuiltinGuard(selected_builtin, uploaded_file)
       THEN \E outcome \in GetDataOutcomes :
              LET r == load_builtin(selected_builtin, outcome)
              IN  /\ calls' = calls \cup {"get_data"}
                  /\ failures' = IF outcome.raised THEN failures \cup {"get_data"}
                                 ELSE failures
                  /\ IF r.raised
                     THEN Uncaught /\ UNCHANGED <<df, messages>>
                     ELSE /\ df' = r.df
                          /\ messages' = messages \cup r.msgs
                          /\ pc' = "load_upload"
                          /\ UNCHANGED crashed
       ELSE /\ pc' = "load_upload"
            /\ UNCHANGED <<df, messages, calls, failures, crashed>>
    /\ UNCHANGED <<selected_builtin, uploaded_file, rejected, trigger, preview,
                   profile, report_rendered, html_str, downloads, prev>>

\* lines 109-113
LoadUpload ==
    /\ pc = "load_upload"
    /\ IF UploadGuard(uploaded_file)
       THEN LET r == read_uploaded_file(uploaded_file)
                parser == IF uploaded_file.ext = "csv" THEN "read_csv"
                          ELSE "read_excel"
                parsed == IF uploaded_file.ext = "csv"
                          THEN pd_read_csv(uploaded_file)
                          ELSE pd_read_excel(uploaded_file)
            IN  /\ calls' = calls \cup {parser}
                /\ failures' = IF parsed.raised THEN failures \cup {parser}
                               ELSE failures
                /\ IF r.raised
                   THEN Uncaught /\ UNCHANGED <<df, messages>>
                   ELSE /\ df' = AssignUpload(df, r.df)
                        /\ messages' = messages \cup r.msgs \cup
                              (IF ~IsEmpty(AssignUpload(df, r.df))
                               THEN {UploadLoaded}
                               ELSE {})
                        /\ pc' = "preview"
                        /\ UNCHANGED crashed
       ELSE /\ pc' = "preview"
            /\ UNCHANGED <<df, messages, calls, failures, crashed>>
    /\ UNCHANGED <<selected_builtin, uploaded_file, rejected, trigger, preview,
                   profile, report_rendered, html_str, downloads, prev>>

\* lines 119-121 and 159-160
Preview ==
    /\ pc = "preview"
    /\ IF PreviewGuard(df)
       THEN /\ preview' = df_head(df, HeadRows)
            /\ pc' = "generate"
            /\ UNCHANGED messages
       ELSE /\ messages' = messages \cup
                  {StartInfo}
            /\ pc' = "idle"
            /\ UNCHANGED preview
    /\ UNCHANGED <<selected_builtin, uploaded_file, rejected, trigger, df,
                   profile, report_rendered, html_str, downloads, calls,
                   failures, crashed, prev>>

\* lines 124-136 and 156-157: the button, ProfileReport, st_profile_report,
\* profile.to_html() and the except clause for the three calls
Generate ==
    /\ pc = "generate"
    /\ IF st_button(trigger)
       THEN \E outcome \in ProfilingOutcomes :
              /\ calls' = calls \cup
                    CASE outcome = "ProfileReport" -> {"ProfileReport"}
                      [] outcome = "st_profile_report" ->
                            {"ProfileReport", "st_profile_report"}
                      [] OTHER -> {"ProfileReport", "st_profile_report", "to_html"}
              /\ failures' = IF outcome = "ok" THEN failures
                             ELSE failures \cup {outcome}
              /\ profile' = IF outcome = "ProfileReport" THEN NoneDf
                            ELSE ProfileInput(df)
              /\ report_rendered' = (outcome \in {"ok", "to_html"})
              /\ html_str' = (outcome = "ok")
              /\ IF outcome = "ok"
                 THEN pc' = "export" /\ UNCHANGED messages
                 ELSE /\ pc' = "idle"
                      /\ messages' = messages \cup {ProfilingError}
       ELSE /\ pc' = "idle"
            /\ UNCHANGED <<calls, failures, profile, report_rendered, html_str,
                           messages>>
    /\ UNCHANGED <<selected_builtin, uploaded_file, rejected, trigger, df,
                   preview, downloads, crashed, prev>>

\* lines 139-157: the HTML button, convert_html_to_pdf, the PDF button and the
\* except clause of the enclosing try
Export ==
    /\ pc = "export"
    /\ \E outcome \in PdfOutcomes :
         LET r == convert_html_to_pdf(outcome)
         IN  /\ calls' = calls \cup {"pdfkit"}
             /\ failures' = IF outcome = "raise" THEN failures \cup {"pdfkit"}
                            ELSE failures
             /\ IF r.raised
                THEN /\ downloads' = {HtmlButton(selected_builtin)}
                     /\ messages' = messages \cup r.msgs \cup
                           {ProfilingError}
                ELSE /\ downloads' = {HtmlButton(selected_builtin)} \cup
                           (IF Truthy(r.ret) THEN {PdfButton(selected_builtin)}
                            ELSE {})
                     /\ messages' = messages \cup r.msgs
    /\ pc' = "idle"
    /\ UNCHANGED <<selected_builtin, uploaded_file, rejected, trigger, df,
                   preview, profile, report_rendered, html_str, crashed, prev>>

RunScript == LoadBuiltin \/ LoadUpload \/ Preview \/ Generate \/ Export

Next ==
    \/ \E name \in Range(SelectOptions) : SelectBuiltin(name)
    \/ \E file \in Files : UploadFile(file)
    \/ \E file \in Files : RejectFile(file)
    \/ RemoveUpload
    \/ PressGenerate
    \/ ClickDownload
    \/ LoadBuiltin
    \/ LoadUpload
    \/ Preview
    \/ Generate
    \/ Export

Spec == Init /\ [][Next]_vars

\* The script runs to completion once started (spec section 5: each action
\* triggers a synchronous computation); the user is never obliged to act.
FairSpec == Spec /\ WF_vars(RunScript)

---------------------------------------------------------------------------
(* Vocabulary of the properties *)

\* the run has passed the load phase (lines 99-113)
LoadPhaseDone == pc \in {"preview", "generate", "export", "idle"}

\* the run has finished
RunDone == pc = "idle"

\* a dataset is set and has rows
Active(d) == d # NoneDf /\ d.rows > 0

\* the states of spec section 4.5, read off a finished page
StateOf(d, dl) ==
    IF ~Active(d) THEN "Idle" ELSE IF dl # {} THEN "Profiled" ELSE "Loaded"

State == StateOf(df, downloads)

PrevState == StateOf(prev.df, prev.downloads)

\* the upload formats of spec section 6
UploadFormats == {"csv", "xlsx", "xls"}

\* the parser the file's extension selects accepts the file's bytes
Parseable(file) ==
    \/ file.ext = "csv" /\ file.format = "delimited"
    \/ file.ext # "csv" /\ file.format = "spreadsheet"

HtmlOffered == \E d \in downloads : d.mime = "text/html"

PdfOffered == \E d \in downloads : d.mime = "application/pdf"

---------------------------------------------------------------------------
(* C1 *)

\* C1: when a file is uploaded, the dataset after the load phase is what
\* reading that file gave (its rows through the parser of its extension, or
\* the empty table when it cannot be parsed), whatever built-in name is
\* selected and however the built-in load ended; a built-in dataset is active
\* only when no file is uploaded, and it is the selected one.
OverrideProperty ==
    LoadPhaseDone =>
        /\ uploaded_file # NoFile =>
              IF Parseable(uploaded_file)
              THEN /\ df.src = (IF uploaded_file.ext = "csv" THEN "read_csv"
                                ELSE "read_excel")
                   /\ df.rows = uploaded_file.rows
              ELSE df = EmptyDataFrame
        /\ df.src = "get_data" =>
              uploaded_file = NoFile /\ df.name = selected_builtin

\* a built-in dataset was loaded and the upload replaced it
OverrideWitness ==
    /\ RunDone
    /\ BuiltinLoaded \in messages
    /\ uploaded_file # NoFile
    /\ df.src = "read_csv"
    /\ df.rows = MaxRows

---------------------------------------------------------------------------
(* C2 *)

\* C2 as stated: a failure leaves the session in the state it was in before
\* the action. If the session was Loaded and the upload that triggered the
\* run fails to parse, or the built-in reload of the run fails, the finished
\* run is Loaded with the dataset the previous page had.
PriorStateKeptOnFailure ==
    (/\ RunDone
     /\ PrevState = "Loaded"
     /\ \/ trigger = "upload" /\ ReadError \in messages
        \/ BuiltinError \in messages)
    => (State = "Loaded" /\ df = prev.df)

\* C2 as amended: a failure surfaces its message and ends only the step that
\* failed, and the finished run shows what the current widgets give, not the
\* previous page: a failed built-in load with no upload leaves no dataset
\* (Idle); an upload that cannot be parsed leaves the empty table in place of
\* any built-in dataset (Idle, no preview, no export); a failure of profile
\* construction, rendering or HTML serialization leaves the run's dataset
\* active with its preview and offers no export (Loaded).
FailureLeavesRunState ==
    RunDone =>
        /\ ReadError \in messages =>
              /\ df = EmptyDataFrame
              /\ State = "Idle"
              /\ preview = NoneDf
              /\ downloads = {}
              /\ StartInfo \in messages
        /\ (BuiltinError \in messages /\ uploaded_file = NoFile) =>
              /\ df = NoneDf
              /\ State = "Idle"
              /\ StartInfo \in messages
        /\ ProfilingError \in messages =>
              /\ Active(df)
              /\ preview # NoneDf
              /\ downloads = {}
              /\ State = "Loaded"

\* the session was Loaded from a built-in dataset, the uploaded file could
\* not be parsed although the built-in load succeeded again, and the run
\* ended Idle
FailureWitness ==
    /\ RunDone
    /\ PrevState = "Loaded"
    /\ prev.df.src = "get_data"
    /\ trigger = "upload"
    /\ BuiltinLoaded \in messages
    /\ ReadError \in messages
    /\ State = "Idle"

---------------------------------------------------------------------------
(* C3 *)

\* C3: every offered file is named <dataset>_profiling.html / .pdf, where
\* <dataset> is the built-in name when the profiled dataset is the built-in
\* one and "uploaded_data" when it comes from an upload.
ExportFileNames ==
    \A d \in downloads :
        d.file_name =
            (IF profile.src = "get_data" THEN profile.name ELSE "uploaded_data")
            \o "_profiling"
            \o (IF d.mime = "text/html" THEN ".html" ELSE ".pdf")

---------------------------------------------------------------------------
(* C4 *)

\* C4: once the HTML string exists the HTML download is offered whatever the
\* PDF conversion did; when the conversion raises, no PDF download is
\* offered, the warning is shown, no profiling error is shown, and no
\* exception escapes the run.
PdfFailSoft ==
    /\ ~crashed
    /\ RunDone =>
          /\ html_str => HtmlOffered
          /\ "pdfkit" \in failures =>
                /\ ~PdfOffered
                /\ PdfWarning \in messages
                /\ ProfilingError \notin messages
          /\ PdfOffered => "pdfkit" \in calls \ failures

\* the conversion raised and the HTML download is there without the PDF one
PdfFailSoftWitness ==
    /\ RunDone
    /\ "pdfkit" \in failures
    /\ HtmlOffered
    /\ ~PdfOffered
    /\ PdfWarning \in messages

---------------------------------------------------------------------------
(* C5 *)

\* every collaborator failure of the finished run has its message, and the
\* failed load leaves the dataset the claim names
FailuresReported ==
    /\ ~crashed
    /\ (pc = "load_upload" /\ "get_data" \in failures) =>
          (df = NoneDf /\ BuiltinError \in messages)
    /\ RunDone =>
          /\ "get_data" \in failures => BuiltinError \in messages
          /\ (failures \cap {"read_csv", "read_excel"} # {}) =>
                (ReadError \in messages /\ df = EmptyDataFrame)
          /\ (failures \cap {"ProfileReport", "st_profile_report", "to_html"} # {})
                => ProfilingError \in messages
          /\ "pdfkit" \in failures => PdfWarning \in messages
          /\ failures = {} => \A m \in messages : m.level \in {"success", "info"}

\* C5: every run ends, no exception escapes it whatever the collaborators
\* do, and each failure is turned into its message where it happened: a
\* failed built-in load reports an error and leaves the dataset unset, an
\* unparseable upload reports an error and yields the empty table, a
\* profiling failure reports an error.
EveryRunEndsReported ==
    /\ []FailuresReported
    /\ (pc # "idle") ~> (pc = "idle")

\* a run in which the built-in load and the upload parsing both failed
LoadFailuresWitness ==
    /\ RunDone
    /\ "get_data" \in failures
    /\ "read_excel" \in failures
    /\ BuiltinError \in messages
    /\ ReadError \in messages

---------------------------------------------------------------------------
(* C6 *)

\* C6: a download is offered only if a non-empty dataset is active, the run
\* was triggered by the Generate button, and profile construction, in-page
\* rendering and HTML serialization all succeeded; the report is rendered
\* only under the first two; and the page the Generate press came from had a
\* dataset, so nothing is offered from Idle.
ExportsOnlyWhenProfiled ==
    /\ downloads # {} =>
          /\ Active(df)
          /\ trigger = "generate"
          /\ {"ProfileReport", "st_profile_report", "to_html"} \subseteq calls \ failures
          /\ profile # NoneDf
          /\ report_rendered
          /\ html_str
          /\ PrevState # "Idle"
    /\ report_rendered =>
          /\ Active(df)
          /\ trigger = "generate"
          /\ PrevState # "Idle"
    /\ (RunDone /\ State = "Idle") => (downloads = {} /\ ~report_rendered)

\* Profiled reached from Loaded by a Generate press
ProfiledWitness ==
    /\ RunDone
    /\ PrevState = "Loaded"
    /\ State = "Profiled"
    /\ trigger = "generate"
    /\ HtmlOffered
    /\ PdfOffered

---------------------------------------------------------------------------
(* C7 *)

\* C7: the uploader takes exactly the files whose extension is .csv, .xlsx
\* or .xls, and a file it took is read by the delimited-text parser when its
\* extension is .csv and by the spreadsheet parser otherwise.
UploaderTakesUploadFormats ==
    /\ rejected \notin UploadFormats
    /\ uploaded_file # NoFile => uploaded_file.ext \in UploadFormats
    /\ (LoadPhaseDone /\ uploaded_file # NoFile) =>
          calls \cap {"read_csv", "read_excel"} =
              {IF uploaded_file.ext = "csv" THEN "read_csv" ELSE "read_excel"}

---------------------------------------------------------------------------
(* C8 *)

\* C8: the preview is the first min(10, rows) rows of the active dataset and
\* is there exactly when the dataset is set and non-empty; the profiler gets
\* the active dataset with all its rows, which is the upload whenever a file
\* is uploaded.
PreviewAndProfileOfActive ==
    /\ preview # NoneDf =>
          /\ Active(df)
          /\ preview.src = df.src
          /\ preview.name = df.name
          /\ preview.rows = (IF df.rows < HeadRows THEN df.rows ELSE HeadRows)
    /\ (pc \in {"generate", "export", "idle"} /\ Active(df)) => preview # NoneDf
    /\ profile # NoneDf =>
          /\ profile = df
          /\ profile.rows = df.rows
          /\ uploaded_file # NoFile => profile.src # "get_data"

\* a profiled upload longer than the preview, with a built-in name selected
\* and loaded
WholeDatasetWitness ==
    /\ RunDone
    /\ BuiltinLoaded \in messages
    /\ profile.src = "read_excel"
    /\ profile.rows = MaxRows
    /\ preview.rows = HeadRows
    /\ HtmlOffered

---------------------------------------------------------------------------
(* C9 *)

\* C9: every run starts with no dataset, calls the built-in provider exactly
\* when a built-in name is selected (also when a file is uploaded), reads the
\* uploaded file exactly when one is present, and a Generate press profiles
\* the dataset loaded in that same run.
ReloadedEveryRun ==
    /\ pc = "load_builtin" => (df = NoneDf /\ calls = {})
    /\ pc # "load_builtin" =>
          ("get_data" \in calls <=> selected_builtin # NoneLabel)
    /\ LoadPhaseDone =>
          (calls \cap {"read_csv", "read_excel"} # {} <=> uploaded_file # NoFile)
    /\ profile # NoneDf => (trigger = "generate" /\ profile = df)

\* a Generate press whose run shows the built-in load error next to the
\* loaded upload, which is what gets profiled
ReloadWitness ==
    /\ RunDone
    /\ trigger = "generate"
    /\ BuiltinError \in messages
    /\ UploadLoaded \in messages
    /\ profile = df
    /\ df.src = "read_csv"

---------------------------------------------------------------------------
(* C10 *)

\* C10: a run starts with no profile, report or download; whatever of these
\* a run shows was made in that run by a ProfileReport call after a Generate
\* press; a finished run that another interaction triggered shows no report
\* and no download, so it is Loaded or Idle.
ProfiledNotCarriedOver ==
    /\ pc = "load_builtin" =>
          (profile = NoneDf /\ ~report_rendered /\ ~html_str /\ downloads = {})
    /\ (profile # NoneDf \/ report_rendered \/ html_str \/ downloads # {}) =>
          (trigger = "generate" /\ "ProfileReport" \in calls)
    /\ (RunDone /\ trigger # "generate") =>
          /\ ~report_rendered
          /\ downloads = {}
          /\ "ProfileReport" \notin calls
          /\ State \in {"Loaded", "Idle"}

\* the page was Profiled, a download click reran the script, and the session
\* is back in Loaded
BackToLoadedWitness ==
    /\ RunDone
    /\ PrevState = "Profiled"
    /\ trigger = "download"
    /\ State = "Loaded"
    /\ preview # NoneDf

===========================================================================
